---------------------------- MODULE Spec2Model ----------------------------
(***************************************************************************)
(* A model of functional_style_checker.py: the structure extractor         *)
(* (parse_file_structure, annotation_to_string), the report formatters     *)
(* and main.                                                               *)
(*                                                                         *)
(* Python values are modelled as follows.                                  *)
(*   - a str is a TLA+ string; an f-string is a concatenation with \o;     *)
(*   - an optional value (None or a value v) is the sequence <<>> or <<v>>;*)
(*   - an object is a record whose fields are the object's attributes, so  *)
(*     hasattr(o, "f") is "f" \in DOMAIN o; every node record also carries *)
(*     its class in the field kind, which isinstance reads;                *)
(*   - a syntax tree is a table of statement nodes: a node is its index in *)
(*     the table, and a node's body lists the indices of its child         *)
(*     statements in source order.  Expression nodes below a statement     *)
(*     match no branch of the extractor's loop, so only the annotation     *)
(*     expressions (which the extractor reads) are represented.            *)
(***************************************************************************)
EXTENDS Integers, Sequences, FiniteSets, TLC

VARIABLES
    pc,         \* position of main
    argc,       \* len(sys.argv)
    fileKind,   \* what the input path names: "missing", "directory", "file"
    source,     \* the content of the input file
    tree,       \* the result of ast.parse, once parsed
    parent,     \* the parent attribute the first loop sets on the nodes
    todo,       \* the deque of ast.walk in the second loop
    imports,    \* parse_file_structure's local lists
    classes,
    functions,
    data,       \* the record parse_file_structure returned, if it did
    report,     \* the string generate_full_report returned
    out,        \* the report file: <<>> while not created, else <<content>>
    status,     \* the exit status of the process, once it ended
    exc,        \* the exception that ended the run, "" if none
    calls,      \* the calls main made to the outside, in order
    fnArg,      \* the argument of a pure function under check
    fnResult    \* and its result, once called

vars == <<pc, argc, fileKind, source, tree, parent, todo, imports, classes,
          functions, data, report, out, status, exc, calls, fnArg, fnResult>>

---------------------------------------------------------------------------
(* Python values *)

None == <<>>
Some(v) == <<v>>

Return(v) == [exc |-> "", value |-> v]
Raise(e) == [exc |-> e, value |-> None]

hasattr(obj, name) == name \in DOMAIN obj

RECURSIVE Join(_, _)
\* sep.join(strs)
Join(sep, strs) ==
    IF strs = <<>> THEN ""
    ELSE IF Len(strs) = 1 THEN strs[1]
    ELSE strs[1] \o sep \o Join(sep, Tail(strs))

RECURSIVE Flatten(_)
\* the concatenation of a sequence of sequences
Flatten(seqs) ==
    IF seqs = <<>> THEN <<>> ELSE Head(seqs) \o Flatten(Tail(seqs))

RECURSIVE SortedSeq(_)
\* the numbers of a set, ascending
SortedSeq(S) ==
    IF S = {} THEN <<>>
    ELSE LET m == CHOOSE x \in S : \A y \in S : x <= y
         IN <<m>> \o SortedSeq(S \ {m})

\* [s[i] for i in range(len(s)) if i in kept]: the entries of a list at the
\* positions a test keeps, in the order of the list
SubList(s, kept) == [k \in DOMAIN SortedSeq(kept) |-> s[SortedSeq(kept)[k]]]

---------------------------------------------------------------------------
(* Annotation expressions: the ast node classes annotation_to_string meets *)

NoAnnotation == [kind |-> "NoneType"]
Name(id) == [kind |-> "Name", id |-> id]
Attribute(value, attr) == [kind |-> "Attribute", value |-> value, attr |-> attr]
Subscript(value, slice) == [kind |-> "Subscript", value |-> value, slice |-> slice]
\* ast.Index wraps a subscript's argument up to Python 3.8; from 3.9 on the
\* argument is the slice itself
Index(value) == [kind |-> "Index", value |-> value]
\* ast.Constant: its value is a Python object, not a node
Constant(s) == [kind |-> "Constant", value |-> [kind |-> "str", s |-> s]]
TupleExpr(elts) == [kind |-> "Tuple", elts |-> elts]
BinOp(left, right) == [kind |-> "BinOp", left |-> left, op |-> "BitOr", right |-> right]

annotation_to_string(annotation) ==
    IF annotation = NoAnnotation THEN Return(None)
    ELSE IF annotation.kind = "Name" THEN Return(Some(annotation.id))
    ELSE IF annotation.kind = "Attribute" THEN
        \* annotation.value.id
        IF hasattr(annotation.value, "id")
        THEN Return(Some(annotation.value.id \o "." \o annotation.attr))
        ELSE Raise("AttributeError")
    ELSE IF annotation.kind = "Subscript" THEN
        \* hasattr(annotation.value, 'id') and hasattr(annotation.slice.value, 'id'):
        \* the second operand is evaluated only when the first holds, and
        \* reading annotation.slice.value comes before its hasattr
        IF ~hasattr(annotation.value, "id") THEN Return(None)
        ELSE IF ~hasattr(annotation.slice, "value") THEN Raise("AttributeError")
        ELSE IF hasattr(annotation.slice.value, "id")
        THEN Return(Some(annotation.value.id \o "[" \o annotation.slice.value.id \o "]"))
        ELSE Return(None)
    ELSE Return(None)

---------------------------------------------------------------------------
(* Statement nodes and syntax trees *)

alias(name) == [name |-> name]
arg(name, annotation) == [arg |-> name, annotation |-> annotation]
\* ast.arguments: the five kinds of formal parameter, each in its own field
arguments(posonlyargs, args, vararg, kwonlyargs, kwarg) ==
    [posonlyargs |-> posonlyargs, args |-> args, vararg |-> vararg,
     kwonlyargs |-> kwonlyargs, kwarg |-> kwarg]

Module(body) == [kind |-> "Module", body |-> body]
Import(names) == [kind |-> "Import", names |-> names]
ImportFrom(module, names, level) ==
    [kind |-> "ImportFrom", module |-> module, names |-> names, level |-> level]
ClassDef(name, body) == [kind |-> "ClassDef", name |-> name, body |-> body]
FunctionDef(name, args, returns, body) ==
    [kind |-> "FunctionDef", name |-> name, args |-> args, returns |-> returns,
     body |-> body]
If(body) == [kind |-> "If", body |-> body]
\* an expression statement; a leading one holding a str is the docstring
Expr(value) == [kind |-> "Expr", value |-> value]
\* any other simple statement (assignment, return, pass)
Simple == [kind |-> "Pass"]

\* ast.iter_child_nodes, restricted to the statement nodes
iter_child_nodes(node) == IF hasattr(node, "body") THEN node.body ELSE <<>>

\* ast.get_docstring: the str of a leading expression statement (the
\* docstrings of the inputs are single lines, which inspect.cleandoc keeps)
get_docstring(t, node) ==
    IF node.body # <<>>
       /\ t[node.body[1]].kind = "Expr"
       /\ t[node.body[1]].value.kind = "Constant"
    THEN Some(t[node.body[1]].value.value.s)
    ELSE None

TheRoot == 1

---------------------------------------------------------------------------
(* The inputs: source files *)

MaxStmts == 3

Templates ==
    {"Import", "ImportFrom", "ImportFromDot", "ClassDef", "FunctionDef",
     "FunctionDefStar", "If"}
Compound == {"ClassDef", "FunctionDef", "FunctionDefStar", "If"}

RECURSIVE AncOrSelf(_, _)
AncOrSelf(up, i) == IF i = TheRoot THEN {TheRoot} ELSE {i} \cup AncOrSelf(up, up[i])

\* up numbers the statements in source order: each statement follows, in
\* the text, the statement before it, so its parent encloses that one
IsSourceOrder(up, n) ==
    \A i \in 2..n :
        /\ up[i] < i
        /\ i > 2 => up[i] \in AncOrSelf(up, i - 1)

BodyOf(up, n, p) == SortedSeq({i \in 2..n : up[i] = p})

\* the statement of template t at position i, with the given body; its
\* names carry i, so that every declaration of a file has a name of its own
MakeStmt(t, i, body) ==
    CASE t = "Import" ->
           \* import m<i>
           Import(<<alias("m" \o ToString(i))>>)
      [] t = "ImportFrom" ->
           \* from pkg import n<i>
           ImportFrom(Some("pkg"), <<alias("n" \o ToString(i))>>, 0)
      [] t = "ImportFromDot" ->
           \* from . import n<i>
           ImportFrom(None, <<alias("n" \o ToString(i))>>, 1)
      [] t = "ClassDef" ->
           \* class C<i>:
           ClassDef("C" \o ToString(i), body)
      [] t = "FunctionDef" ->
           \* def f<i>(a: int) -> int:
           FunctionDef("f" \o ToString(i),
                       arguments(<<>>, <<arg("a", Name("int"))>>, None, <<>>, None),
                       Name("int"), body)
      [] t = "FunctionDefStar" ->
           \* def g<i>(p: int, /, a: int, *rest, k: int, **kw: int) -> int:
           FunctionDef("g" \o ToString(i),
                       arguments(<<arg("p", Name("int"))>>,
                                 <<arg("a", Name("int"))>>,
                                 Some(arg("rest", NoAnnotation)),
                                 <<arg("k", Name("int"))>>,
                                 Some(arg("kw", Name("int")))),
                       Name("int"), body)
      [] t = "If" ->
           If(body)

\* the tree of n nodes with parents up and templates tm
MakeTree(up, tm, n) ==
    [i \in 1..n |->
        IF i = TheRoot THEN Module(BodyOf(up, n, i))
        ELSE MakeStmt(tm[i], i, BodyOf(up, n, i))]

\* the shapes of the trees of n nodes, and the ways to fill one with
\* statements: only a compound statement has a body
Shapes(n) == {up \in [2..n -> 1..(n - 1)] : IsSourceOrder(up, n)}
Fillings(up, n) ==
    {tm \in [2..n -> Templates] :
        \A i \in 2..n : BodyOf(up, n, i) # <<>> => tm[i] \in Compound}

SourceFile(lines, t) == [valid |-> TRUE, lines |-> lines, tree |-> t]
\* a file whose text is not valid Python
BrokenFile == [valid |-> FALSE, lines |-> 1, tree |-> <<>>]

\* test.py
TestPy ==
    SourceFile(25, <<
        (* 1*) Module(<<2, 3, 4, 5, 15, 18>>),
        (* 2*) Import(<<alias("os")>>),
        (* 3*) Import(<<alias("sys")>>),
        (* 4*) ImportFrom(Some("math"), <<alias("pi"), alias("sqrt")>>, 0),
        (* 5*) ClassDef("ExampleClass", <<6, 7, 10, 13>>),
        (* 6*) Expr(Constant("This is an example class with a docstring.")),
        (* 7*) FunctionDef("__init__",
                   arguments(<<>>, <<arg("self", NoAnnotation), arg("value", Name("int"))>>,
                             None, <<>>, None),
                   NoAnnotation, <<8, 9>>),
        (* 8*) Expr(Constant("Initialize with a value.")),
        (* 9*) Simple,
        (*10*) FunctionDef("multiply",
                   arguments(<<>>, <<arg("self", NoAnnotation), arg("factor", Name("int"))>>,
                             None, <<>>, None),
                   Name("int"), <<11, 12>>),
        (*11*) Expr(Constant("Multiply value by a factor.")),
        (*12*) Simple,
        (*13*) FunctionDef("no_annotation_method",
                   arguments(<<>>, <<arg("self", NoAnnotation)>>, None, <<>>, None),
                   NoAnnotation, <<14>>),
        (*14*) Simple,
        (*15*) FunctionDef("standalone_function",
                   arguments(<<>>, <<arg("x", Name("float"))>>, None, <<>>, None),
                   Name("float"), <<16, 17>>),
        (*16*) Expr(Constant("Calculate the square root of x.")),
        (*17*) Simple,
        (*18*) FunctionDef("another_function_without_annotation",
                   arguments(<<>>, <<>>, None, <<>>, None),
                   NoAnnotation, <<19>>),
        (*19*) Simple >>)

\* a file whose second statement declares a parameter of a type named by a
\* two-level dotted reference:
\*     import os
\*     def load(path: os.path.PathLike) -> int: pass
DottedFile ==
    SourceFile(2, <<
        Module(<<2, 3>>),
        Import(<<alias("os")>>),
        FunctionDef("load",
            arguments(<<>>,
                      <<arg("path", Attribute(Attribute(Name("os"), "path"), "PathLike"))>>,
                      None, <<>>, None),
            Name("int"), <<4>>),
        Simple >>)

---------------------------------------------------------------------------
(* parse_file_structure: what it builds for one declaration *)

\* [{'name': arg.arg, 'annotation': annotation_to_string(arg.annotation)}
\*  for arg in node.args.args]
ArgInfos(node) ==
    [i \in 1..Len(node.args.args) |->
        [name |-> node.args.args[i].arg,
         annotation |-> annotation_to_string(node.args.args[i].annotation).value]]

\* building the record of a function raises when a call of
\* annotation_to_string in it does
FunctionRaises(node) ==
    \/ \E i \in 1..Len(node.args.args) :
           annotation_to_string(node.args.args[i].annotation).exc # ""
    \/ annotation_to_string(node.returns).exc # ""

function_info(t, node) ==
    [name |-> node.name,
     docstring |-> get_docstring(t, node),
     args |-> ArgInfos(node),
     returns |-> annotation_to_string(node.returns).value]

IsFunctionDef(t, n) == t[n].kind = "FunctionDef"

class_info(t, node) ==
    [name |-> node.name,
     docstring |-> get_docstring(t, node),
     methods |->
         LET defs == SubList(node.body,
                             {i \in DOMAIN node.body : IsFunctionDef(t, node.body[i])})
         IN [k \in DOMAIN defs |-> function_info(t, t[defs[k]])]]

ClassRaises(t, node) ==
    \E i \in 1..Len(node.body) :
        IsFunctionDef(t, node.body[i]) /\ FunctionRaises(t[node.body[i]])

\* for alias in node.names: imports.append(alias.name)
ImportEntries(node) == [i \in 1..Len(node.names) |-> node.names[i].name]

\* module = node.module if node.module else ""
\* for alias in node.names: imports.append(f"{module}.{alias.name}")
ImportFromEntries(node) ==
    LET module == IF node.module # None /\ node.module[1] # ""
                  THEN node.module[1] ELSE ""
    IN [i \in 1..Len(node.names) |-> module \o "." \o node.names[i].name]

\* the first loop: every child of every node gets that node as its parent;
\* the root gets none (getattr(node, 'parent', None))
ParentMap(t) ==
    [c \in 1..Len(t) |->
        IF \E n \in 1..Len(t) : \E k \in 1..Len(iter_child_nodes(t[n])) :
               iter_child_nodes(t[n])[k] = c
        THEN Some(CHOOSE n \in 1..Len(t) :
                      \E k \in 1..Len(iter_child_nodes(t[n])) :
                          iter_child_nodes(t[n])[k] = c)
        ELSE None]

\* isinstance(getattr(node, 'parent', None), ast.ClassDef)
ParentIsClass(t, par, n) == par[n] # None /\ t[par[n][1]].kind = "ClassDef"

---------------------------------------------------------------------------
(* The report formatters *)

\* bool(s) of an optional str
Truthy(s) == s # None /\ s[1] # ""

get_docstring_report(d) ==
    LET OfMethod(cls, method) ==
            IF Truthy(method.docstring)
            THEN "Method '" \o method.name \o "' in class '" \o cls.name \o "': "
                 \o method.docstring[1]
            ELSE "Method '" \o method.name \o "' in class '" \o cls.name
                 \o "': DocString not found"
        OfClass(cls) ==
            <<IF Truthy(cls.docstring)
              THEN "Class '" \o cls.name \o "': " \o cls.docstring[1]
              ELSE "Class '" \o cls.name \o "': DocString not found">>
            \o [m \in 1..Len(cls.methods) |-> OfMethod(cls, cls.methods[m])]
        OfFunction(func) ==
            IF Truthy(func.docstring)
            THEN "Function '" \o func.name \o "': " \o func.docstring[1]
            ELSE "Function '" \o func.name \o "': DocString not found"
        lines == Flatten([c \in 1..Len(d.classes) |-> OfClass(d.classes[c])])
                 \o [f \in 1..Len(d.functions) |-> OfFunction(d.functions[f])]
    IN Join("\n\n", lines)

\* has_type_annotations without its test of the return annotation
has_type_annotations_ArgsOnly(func) ==
    \A i \in 1..Len(func.args) : func.args[i].annotation # None

has_type_annotations(func) ==
    LET args_annotated == \A i \in 1..Len(func.args) : func.args[i].annotation # None
        return_annotation == func.returns # None
    IN args_annotated /\ return_annotation

\* the list missing_annotations of check_type_annotations
missing_annotations(d) ==
    LET Missing(funcs) ==
            SubList(funcs, {i \in DOMAIN funcs : ~has_type_annotations(funcs[i])})
        OfFunctions ==
            [k \in DOMAIN Missing(d.functions) |->
                "Function '" \o Missing(d.functions)[k].name \o "'"]
        OfMethods(cls) ==
            [k \in DOMAIN Missing(cls.methods) |->
                "Method '" \o Missing(cls.methods)[k].name \o "' in class '"
                \o cls.name \o "'"]
    IN OfFunctions \o Flatten([c \in 1..Len(d.classes) |-> OfMethods(d.classes[c])])

Bulleted(items) == [i \in 1..Len(items) |-> "- " \o items[i]]

check_type_annotations(d) ==
    IF missing_annotations(d) # <<>>
    THEN "Missing Type Annotations:\n" \o Join("\n", Bulleted(missing_annotations(d)))
    ELSE "All functions and methods have type annotations."

Upper == {"A", "B", "C", "D", "E", "F", "G", "H", "I", "J", "K", "L", "M",
          "N", "O", "P", "Q", "R", "S", "T", "U", "V", "W", "X", "Y", "Z"}
Lower == {"a", "b", "c", "d", "e", "f", "g", "h", "i", "j", "k", "l", "m",
          "n", "o", "p", "q", "r", "s", "t", "u", "v", "w", "x", "y", "z"}
Digit == {"0", "1", "2", "3", "4", "5", "6", "7", "8", "9"}

CharAt(s, i) == SubSeq(s, i, i)

\* $ : at the end of the string, or just before a newline that ends it
AtDollar(s, n) == n = Len(s) \/ (n = Len(s) - 1 /\ CharAt(s, Len(s)) = "\n")

\* re.match(first [rest]* $, s) for two character classes
MatchFirstRest(first, rest, s) ==
    \E n \in 1..Len(s) :
        /\ CharAt(s, 1) \in first
        /\ \A i \in 2..n : CharAt(s, i) \in rest
        /\ AtDollar(s, n)

\* re.match(r'^[A-Z][a-zA-Z0-9]*$', name)
MatchesCamelCase(name) == MatchFirstRest(Upper, Lower \cup Upper \cup Digit, name)

\* the snake_case pattern with [a-zA-Z0-9_]* for its tail
MatchesSnakeCase_AnyTail(name) ==
    MatchFirstRest(Lower \cup {"_"}, Lower \cup Upper \cup Digit \cup {"_"}, name)

\* re.match(r'^[a-z_][a-z0-9_]*$', name)
MatchesSnakeCase(name) ==
    MatchFirstRest(Lower \cup {"_"}, Lower \cup Digit \cup {"_"}, name)

class_issues(d) ==
    LET bad == SubList(d.classes,
                       {c \in DOMAIN d.classes : ~MatchesCamelCase(d.classes[c].name)})
    IN [k \in DOMAIN bad |-> "Class '" \o bad[k].name \o "' does not follow CamelCase"]

func_issues(d) ==
    LET Bad(funcs) == SubList(funcs, {i \in DOMAIN funcs : ~MatchesSnakeCase(funcs[i].name)})
        OfMethods(cls) ==
            [k \in DOMAIN Bad(cls.methods) |->
                "Method '" \o Bad(cls.methods)[k].name \o "' in class '" \o cls.name
                \o "' does not follow snake_case"]
        OfFunctions ==
            [k \in DOMAIN Bad(d.functions) |->
                "Function '" \o Bad(d.functions)[k].name \o "' does not follow snake_case"]
    IN Flatten([c \in 1..Len(d.classes) |-> OfMethods(d.classes[c])]) \o OfFunctions

check_naming_conventions(d) ==
    IF class_issues(d) = <<>> /\ func_issues(d) = <<>>
    THEN "All names adhere to the specified naming convention."
    ELSE LET report_lines ==
                 (IF class_issues(d) # <<>>
                  THEN <<"Classes:">> \o Bulleted(class_issues(d)) ELSE <<>>)
                 \o (IF func_issues(d) # <<>>
                     THEN <<"Functions/Methods:">> \o Bulleted(func_issues(d)) ELSE <<>>)
         IN "Naming Convention Issues:\n" \o Join("\n", report_lines)

generate_file_structure_report(d) ==
    Join("\n",
         <<"Total lines of code: " \o ToString(d.lines_of_code)>>
         \o (IF d.imports # <<>>
             THEN <<"Imports:">> \o Bulleted(d.imports)
             ELSE <<"No imports found.">>)
         \o (IF d.classes # <<>>
             THEN <<"Classes:">> \o Bulleted([c \in 1..Len(d.classes) |-> d.classes[c].name])
             ELSE <<"No classes found.">>)
         \o (IF d.functions # <<>>
             THEN <<"Functions:">>
                  \o Bulleted([f \in 1..Len(d.functions) |-> d.functions[f].name])
             ELSE <<"No standalone functions found.">>))

generate_full_report(d) ==
    Join("\n",
         <<"File Structure", generate_file_structure_report(d),
           "\nDoc Strings", get_docstring_report(d),
           "\nType Annotation Check", check_type_annotations(d),
           "\nNaming Convention Check", check_naming_conventions(d)>>)

---------------------------------------------------------------------------
(* main, step by step *)

NoParent == <<>>

Init ==
    /\ pc = "start"
    /\ argc \in {1, 2}
    /\ \/ /\ fileKind \in {"missing", "directory"}
          /\ source = BrokenFile
       \/ /\ fileKind = "file"
          /\ \/ source \in {BrokenFile, TestPy, DottedFile}
             \/ \E n \in 2..(MaxStmts + 1) :
                    \E up \in Shapes(n) : \E tm \in Fillings(up, n) :
                        source = SourceFile(n - 1, MakeTree(up, tm, n))
    /\ tree = <<>>
    /\ parent = NoParent
    /\ todo = <<>>
    /\ imports = <<>>
    /\ classes = <<>>
    /\ functions = <<>>
    /\ data = None
    /\ report = ""
    /\ out = None
    /\ status = None
    /\ exc = ""
    /\ calls = <<>>
    /\ fnArg = None
    /\ fnResult = None

\* an uncaught exception ends the process with a traceback and status 1
Abort(e) ==
    /\ pc' = "raised"
    /\ exc' = e
    /\ status' = Some(1)

\* lines 223-226: the path comes from argv, or is asked for
GetPath ==
    /\ pc = "start"
    /\ calls' = IF argc = 2 THEN calls ELSE Append(calls, "input")
    /\ pc' = "isfile"
    /\ UNCHANGED <<argc, fileKind, source, tree, parent, todo, imports, classes,
                   functions, data, report, out, status, exc, fnArg, fnResult>>

\* lines 228-230 without the exit: the run goes on whatever the path names
CheckPath_NoExit ==
    /\ pc = "isfile"
    /\ calls' = Append(calls, "os.path.isfile")
    /\ pc' = "parse"
    /\ UNCHANGED <<argc, fileKind, source, tree, parent, todo, imports, classes,
                   functions, data, report, out, status, exc, fnArg, fnResult>>

\* lines 228-230
CheckPath ==
    /\ pc = "isfile"
    /\ IF fileKind # "file"
       THEN /\ calls' = calls \o <<"os.path.isfile", "print", "sys.exit">>
            /\ status' = Some(1)
            /\ pc' = "exited"
       ELSE /\ calls' = Append(calls, "os.path.isfile")
            /\ pc' = "parse"
            /\ UNCHANGED status
    /\ UNCHANGED <<argc, fileKind, source, tree, parent, todo, imports, classes,
                   functions, data, report, out, exc, fnArg, fnResult>>

\* lines 14-19: read_file, then open, read and ast.parse
ParseSource ==
    /\ pc = "parse"
    /\ IF fileKind # "file"
       THEN /\ calls' = Append(calls, "open(r)")
            /\ Abort(IF fileKind = "missing" THEN "FileNotFoundError"
                     ELSE "IsADirectoryError")
            /\ UNCHANGED tree
       ELSE IF ~source.valid
       THEN /\ calls' = calls \o <<"open(r)", "open(r)", "ast.parse">>
            /\ Abort("SyntaxError")
            /\ UNCHANGED tree
       ELSE /\ calls' = calls \o <<"open(r)", "open(r)", "ast.parse">>
            /\ tree' = source.tree
            /\ pc' = "parents"
            /\ UNCHANGED <<exc, status>>
    /\ UNCHANGED <<argc, fileKind, source, parent, todo, imports, classes,
                   functions, data, report, out, fnArg, fnResult>>

\* lines 22-28: the parent links, the empty lists, and the start of the
\* second ast.walk (todo = deque([tree]))
AssignParents ==
    /\ pc = "parents"
    /\ parent' = ParentMap(tree)
    /\ imports' = <<>>
    /\ classes' = <<>>
    /\ functions' = <<>>
    /\ todo' = <<TheRoot>>
    /\ pc' = "walk"
    /\ UNCHANGED <<argc, fileKind, source, tree, data, report, out, status, exc,
                   calls, fnArg, fnResult>>

\* ast.walk: node = todo.popleft(); todo.extend(iter_child_nodes(node))
Popleft(kinds) ==
    /\ pc = "walk"
    /\ todo # <<>>
    /\ tree[Head(todo)].kind \in kinds

Extended == Tail(todo) \o iter_child_nodes(tree[Head(todo)])

\* lines 31-33
VisitImport ==
    /\ Popleft({"Import"})
    /\ todo' = Extended
    /\ imports' = imports \o ImportEntries(tree[Head(todo)])
    /\ UNCHANGED <<pc, argc, fileKind, source, tree, parent, classes, functions,
                   data, report, out, status, exc, calls, fnArg, fnResult>>

\* lines 34-37
VisitImportFrom ==
    /\ Popleft({"ImportFrom"})
    /\ todo' = Extended
    /\ imports' = imports \o ImportFromEntries(tree[Head(todo)])
    /\ UNCHANGED <<pc, argc, fileKind, source, tree, parent, classes, functions,
                   data, report, out, status, exc, calls, fnArg, fnResult>>

\* lines 38-54
VisitClassDef ==
    /\ Popleft({"ClassDef"})
    /\ todo' = Extended
    /\ IF ClassRaises(tree, tree[Head(todo)])
       THEN /\ Abort("AttributeError")
            /\ UNCHANGED classes
       ELSE /\ classes' = Append(classes, class_info(tree, tree[Head(todo)]))
            /\ UNCHANGED <<pc, exc, status>>
    /\ UNCHANGED <<argc, fileKind, source, tree, parent, imports, functions,
                   data, report, out, calls, fnArg, fnResult>>

\* lines 55-64
VisitFunctionDef ==
    /\ Popleft({"FunctionDef"})
    /\ todo' = Extended
    /\ IF ParentIsClass(tree, parent, Head(todo))
       THEN UNCHANGED <<pc, exc, status, functions>>
       ELSE IF FunctionRaises(tree[Head(todo)])
       THEN /\ Abort("AttributeError")
            /\ UNCHANGED functions
       ELSE /\ functions' = Append(functions, function_info(tree, tree[Head(todo)]))
            /\ UNCHANGED <<pc, exc, status>>
    /\ UNCHANGED <<argc, fileKind, source, tree, parent, imports, classes,
                   data, report, out, calls, fnArg, fnResult>>

\* a node of any other class matches no branch
VisitOther ==
    /\ Popleft({"Module", "If", "Expr", "Pass"})
    /\ todo' = Extended
    /\ UNCHANGED <<pc, argc, fileKind, source, tree, parent, imports, classes,
                   functions, data, report, out, status, exc, calls, fnArg, fnResult>>

\* lines 66-71, and the assignment of line 232
ReturnStructure ==
    /\ pc = "walk"
    /\ todo = <<>>
    /\ data' = Some([lines_of_code |-> source.lines, imports |-> imports,
                     classes |-> classes, functions |-> functions])
    /\ pc' = "report"
    /\ UNCHANGED <<argc, fileKind, source, tree, parent, todo, imports, classes,
                   functions, report, out, status, exc, calls, fnArg, fnResult>>

\* line 233
GenerateReport ==
    /\ pc = "report"
    /\ report' = generate_full_report(data[1])
    /\ pc' = "open"
    /\ UNCHANGED <<argc, fileKind, source, tree, parent, todo, imports, classes,
                   functions, data, out, status, exc, calls, fnArg, fnResult>>

\* line 238: open(report_filename, 'w') creates the file, or empties it
OpenReport ==
    /\ pc = "open"
    /\ out' = Some("")
    /\ calls' = Append(calls, "open(w)")
    /\ pc' = "write"
    /\ UNCHANGED <<argc, fileKind, source, tree, parent, todo, imports, classes,
                   functions, data, report, status, exc, fnArg, fnResult>>

\* line 239
WriteReport ==
    /\ pc = "write"
    /\ out' = Some(report)
    /\ calls' = Append(calls, "write")
    /\ pc' = "print"
    /\ UNCHANGED <<argc, fileKind, source, tree, parent, todo, imports, classes,
                   functions, data, report, status, exc, fnArg, fnResult>>

\* line 241, and the end of the process
PrintDone ==
    /\ pc = "print"
    /\ calls' = Append(calls, "print")
    /\ status' = Some(0)
    /\ pc' = "done"
    /\ UNCHANGED <<argc, fileKind, source, tree, parent, todo, imports, classes,
                   functions, data, report, out, exc, fnArg, fnResult>>

Next ==
    \/ GetPath
    \/ CheckPath
    \/ ParseSource
    \/ AssignParents
    \/ VisitImport
    \/ VisitImportFrom
    \/ VisitClassDef
    \/ VisitFunctionDef
    \/ VisitOther
    \/ ReturnStructure
    \/ GenerateReport
    \/ OpenReport
    \/ WriteReport
    \/ PrintDone

Spec == Init /\ [][Next]_vars

---------------------------------------------------------------------------
(* annotation_to_string on its own: every annotation expression up to a    *)
(* depth is given to it                                                    *)

MaxAnnotationDepth == 2

Identifiers == {"List", "int"}

RECURSIVE AnnotationExprs(_)
\* the expressions of at most d levels below their top node
AnnotationExprs(d) ==
    IF d = 0
    THEN {Name(id) : id \in Identifiers} \cup {Constant("x")}
    ELSE LET E == AnnotationExprs(d - 1)
             \* what can stand between the brackets of a subscript
             Slices == E \cup {Index(e) : e \in E}
                         \cup {TupleExpr(<<e, Name("int")>>) : e \in E}
                         \cup {Index(TupleExpr(<<e, Name("int")>>)) : e \in E}
         IN E \cup {Attribute(v, "T") : v \in E}
              \cup {BinOp(l, Name("int")) : l \in E}
              \cup {Subscript(v, sl) : v \in E, sl \in Slices}

MainIdle ==
    UNCHANGED <<argc, fileKind, source, tree, parent, todo, imports, classes,
                functions, data, report, out, status, exc, calls>>

MainUnused ==
    /\ argc = 2
    /\ fileKind = "file"
    /\ source = BrokenFile
    /\ tree = <<>>
    /\ parent = NoParent
    /\ todo = <<>>
    /\ imports = <<>>
    /\ classes = <<>>
    /\ functions = <<>>
    /\ data = None
    /\ report = ""
    /\ out = None
    /\ status = None
    /\ exc = ""
    /\ calls = <<>>

InitAnnotation ==
    /\ pc = "call"
    /\ fnArg \in AnnotationExprs(MaxAnnotationDepth) \cup {NoAnnotation}
    /\ fnResult = None
    /\ MainUnused

CallAnnotationToString ==
    /\ pc = "call"
    /\ fnResult' = Some(annotation_to_string(fnArg))
    /\ pc' = "returned"
    /\ UNCHANGED fnArg
    /\ MainIdle

NextAnnotation == CallAnnotationToString

SpecAnnotation == InitAnnotation /\ [][NextAnnotation]_vars

---------------------------------------------------------------------------
(* The two checks on their own: structural records are given to            *)
(* check_type_annotations and to check_naming_conventions                  *)

MaxFuncs == 2
MaxNameLen == 3

FuncInfo(name, args, returns) ==
    [name |-> name, docstring |-> None, args |-> args, returns |-> returns]
ClassInfo(name, methods) == [name |-> name, docstring |-> None, methods |-> methods]
Record(cls, funcs) ==
    [lines_of_code |-> 1, imports |-> <<>>, classes |-> cls, functions |-> funcs]

Untyped == [name |-> "x", annotation |-> None]
Typed == [name |-> "y", annotation |-> Some("int")]

\* functions that differ in what is annotated
AnnotationCases ==
    {FuncInfo("f", a, r) :
        a \in {<<>>, <<Untyped>>, <<Typed>>, <<Typed, Untyped>>, <<Untyped, Typed>>,
               <<Typed, Typed>>},
        r \in {None, Some("int")}}

\* records of up to MaxFuncs functions, the first k of them standalone and
\* the others the methods of a class
AnnotationRecords ==
    {Record(<<>>, <<>>)} \cup
    UNION {{Record(<<ClassInfo("C", SubSeq(fs, k + 1, n))>>, SubSeq(fs, 1, k)) :
               fs \in [1..n -> AnnotationCases], k \in 0..n} : n \in 0..MaxFuncs} \cup
    UNION {{Record(<<>>, fs) : fs \in [1..n -> AnnotationCases]} : n \in 1..MaxFuncs}

RECURSIVE Words(_, _)
\* the strings of n characters of an alphabet
Words(alphabet, n) ==
    IF n = 0 THEN {""}
    ELSE {w \o c : w \in Words(alphabet, n - 1), c \in alphabet}

\* names: the identifiers of up to MaxNameLen characters of a small
\* alphabet, and the names of the examples
Names ==
    {w \in UNION {Words({"A", "a", "1", "_"}, n) : n \in 1..MaxNameLen} :
        CharAt(w, 1) \notin Digit}
    \cup {"HTTPServer", "http_server", "do_thing", "DoThing", "ExampleClass",
          "__init__"}

NamedRecord(c, m, f) ==
    Record(<<ClassInfo(c, <<FuncInfo(m, <<>>, None)>>)>>, <<FuncInfo(f, <<>>, None)>>)

\* records that differ in the names: one name ranges over Names, the other
\* two over a conforming and a non-conforming one
NamingRecords ==
    {NamedRecord(c, m, f) : c \in Names, m \in {"run", "Run"}, f \in {"do_thing", "DoThing"}}
    \cup {NamedRecord(c, m, f) :
              c \in {"HTTPServer", "http_server"}, m \in Names, f \in {"do_thing", "DoThing"}}
    \cup {NamedRecord(c, m, f) :
              c \in {"HTTPServer", "http_server"}, m \in {"run", "Run"}, f \in Names}

InitReport ==
    /\ pc = "call"
    /\ fnArg \in AnnotationRecords \cup NamingRecords
    /\ fnResult = None
    /\ MainUnused

CallCheckTypeAnnotations ==
    /\ pc = "call"
    /\ fnResult' = Some(check_type_annotations(fnArg))
    /\ pc' = "returned_annotations"
    /\ UNCHANGED fnArg
    /\ MainIdle

CallCheckNamingConventions ==
    /\ pc = "call"
    /\ fnResult' = Some(check_naming_conventions(fnArg))
    /\ pc' = "returned_naming"
    /\ UNCHANGED fnArg
    /\ MainIdle

NextReport == CallCheckTypeAnnotations \/ CallCheckNamingConventions

SpecReport == InitReport /\ [][NextReport]_vars

---------------------------------------------------------------------------
(* What the properties below read: the source text behind a tree, and the  *)
(* lines of a report                                                       *)

Range(seq) == {seq[i] : i \in DOMAIN seq}

\* the statement whose body holds n (0 for the root)
Encloser(t, n) ==
    IF \E p \in 1..Len(t) : hasattr(t[p], "body") /\ n \in Range(t[p].body)
    THEN CHOOSE p \in 1..Len(t) : hasattr(t[p], "body") /\ n \in Range(t[p].body)
    ELSE 0

RECURSIVE Enclosers(_, _)
\* the statements around n, at any depth
Enclosers(t, n) ==
    IF Encloser(t, n) = 0 THEN {}
    ELSE {Encloser(t, n)} \cup Enclosers(t, Encloser(t, n))

RECURSIVE TextOrder(_, _)
\* the statements from n on in the order of the source text: a statement,
\* then the statements of its body
TextOrder(t, n) ==
    <<n>> \o Flatten([k \in 1..Len(iter_child_nodes(t[n])) |->
                         TextOrder(t, iter_child_nodes(t[n])[k])])

\* the declarations of a kind, in the order of the source text
Declared(t, kind) ==
    SubList(TextOrder(t, TheRoot),
            {k \in DOMAIN TextOrder(t, TheRoot) : t[TextOrder(t, TheRoot)[k]].kind = kind})

\* the declaration of a kind with a name (every declaration of an input
\* file has a name of its own)
DeclarationOf(t, kind, name) ==
    CHOOSE n \in 1..Len(t) : t[n].kind = kind /\ t[n].name = name

PositionIn(seq, x) == CHOOSE i \in DOMAIN seq : seq[i] = x

\* s.split("\n")
Lines(s) ==
    LET breaks == <<0>> \o SortedSeq({i \in 1..Len(s) : CharAt(s, i) = "\n"})
                  \o <<Len(s) + 1>>
    IN [k \in 1..(Len(breaks) - 1) |-> SubSeq(s, breaks[k] + 1, breaks[k + 1] - 1)]

Count(seq, x) == Cardinality({i \in DOMAIN seq : seq[i] = x})

\* every formal parameter of a declaration, as declared:
\* positional-only, ordinary, *args, keyword-only, **kwargs
FormalParameters(node) ==
    node.args.posonlyargs \o node.args.args \o node.args.vararg
    \o node.args.kwonlyargs \o node.args.kwarg

Extracted == data # None

---------------------------------------------------------------------------
(* The properties *)

\* C1: every entry of 'functions' comes from a function declaration with no
\* class declaration around it at any depth, and every entry of a class's
\* 'methods' comes from a function declaration whose direct parent is that
\* class.
C1_NestingLevel ==
    Extracted =>
        /\ \A i \in DOMAIN data[1].functions :
               \A a \in Enclosers(tree, DeclarationOf(tree, "FunctionDef",
                                                      data[1].functions[i].name)) :
                   tree[a].kind # "ClassDef"
        /\ \A c \in DOMAIN data[1].classes :
               \A m \in DOMAIN data[1].classes[c].methods :
                   Encloser(tree, DeclarationOf(tree, "FunctionDef",
                                                data[1].classes[c].methods[m].name))
                   = DeclarationOf(tree, "ClassDef", data[1].classes[c].name)

\* C2: for test.py, check_type_annotations on the extracted record lists
\* exactly the method no_annotation_method of ExampleClass and the function
\* another_function_without_annotation.
C2_TestPyViolators ==
    (Extracted /\ source = TestPy) =>
        Range(Tail(Lines(check_type_annotations(data[1])))) =
            {"- Method 'no_annotation_method' in class 'ExampleClass'",
             "- Function 'another_function_without_annotation'"}

\* what the claim gives for one imported name
ClaimedImport(node, k) ==
    IF node.kind = "Import" THEN node.names[k].name
    ELSE IF node.module = None \/ node.module = Some("")
    THEN node.names[k].name
    ELSE node.module[1] \o "." \o node.names[k].name

\* C3: 'imports' holds "pkg" for import pkg, "pkg.name" for
\* from pkg import name, and the bare "name" for a from-import with no
\* module (from . import name).
C3_ImportRendering ==
    Extracted =>
        Range(data[1].imports) =
            UNION {{ClaimedImport(tree[n], k) : k \in DOMAIN tree[n].names} :
                      n \in {n \in DOMAIN tree : tree[n].kind \in {"Import", "ImportFrom"}}}

Supported(a) ==
    \/ a.kind = "Name"
    \/ a.kind = "Attribute" /\ a.value.kind = "Name"
    \/ /\ a.kind = "Subscript"
       /\ a.value.kind = "Name"
       /\ \/ a.slice.kind = "Name"
          \/ a.slice.kind = "Index" /\ a.slice.value.kind = "Name"

\* C4: annotation_to_string never raises, and returns None for every shape
\* other than an identifier, a qualified reference on an identifier, and a
\* generic whose base and single argument are identifiers.
C4_Total ==
    pc = "returned" =>
        /\ fnResult[1].exc = ""
        /\ ~Supported(fnArg) => fnResult[1].value = None

\* C5: 'imports', 'classes', 'functions', each class's 'methods' and each
\* function's 'args' are in the order of the source text, also when a
\* declaration nested in an earlier body is followed by a later one at
\* module level.
C5_SourceOrder ==
    Extracted =>
        /\ data[1].imports =
               Flatten([k \in 1..Len(TextOrder(tree, TheRoot)) |->
                   LET node == tree[TextOrder(tree, TheRoot)[k]]
                   IN IF node.kind = "Import" THEN ImportEntries(node)
                      ELSE IF node.kind = "ImportFrom" THEN ImportFromEntries(node)
                      ELSE <<>>])
        /\ [c \in DOMAIN data[1].classes |-> data[1].classes[c].name] =
               [k \in DOMAIN Declared(tree, "ClassDef") |->
                   tree[Declared(tree, "ClassDef")[k]].name]
        /\ \A i, j \in DOMAIN data[1].functions :
               i < j =>
                   PositionIn(TextOrder(tree, TheRoot),
                              DeclarationOf(tree, "FunctionDef", data[1].functions[i].name))
                   < PositionIn(TextOrder(tree, TheRoot),
                                DeclarationOf(tree, "FunctionDef", data[1].functions[j].name))
        /\ \A c \in DOMAIN data[1].classes :
               [m \in DOMAIN data[1].classes[c].methods |->
                   data[1].classes[c].methods[m].name] =
               LET body == tree[DeclarationOf(tree, "ClassDef", data[1].classes[c].name)].body
                   defs == SubList(body, {k \in DOMAIN body : tree[body[k]].kind = "FunctionDef"})
               IN [k \in DOMAIN defs |-> tree[defs[k]].name]
        /\ \A i \in DOMAIN data[1].functions :
               LET node == tree[DeclarationOf(tree, "FunctionDef", data[1].functions[i].name)]
               IN [k \in DOMAIN data[1].functions[i].args |->
                       data[1].functions[i].args[k].name] =
                  [k \in DOMAIN node.args.args |-> node.args.args[k].arg]

\* the path is checked, the file parsed and the record returned before the
\* report file is opened
OpenedLast ==
    \A i \in DOMAIN calls :
        calls[i] = "open(w)" =>
            /\ \E j \in 1..(i - 1) : calls[j] = "os.path.isfile"
            /\ \E j \in 1..(i - 1) : calls[j] = "ast.parse"
            /\ Extracted

\* C6: the report file is opened only after the path check, the parsing and
\* the extraction succeeded; a path that is no regular file ends the process
\* with a non-zero status before anything is read or parsed; and when
\* parsing raises, the run ends with no record and no report file.
C6_ReportOnlyOnSuccess ==
    /\ OpenedLast
    /\ out # None => (Extracted /\ exc = "" /\ fileKind = "file" /\ source.valid)
    /\ fileKind # "file" =>
           /\ pc \in {"start", "isfile", "exited"}
           /\ pc = "exited" => (status # None /\ status[1] # 0)
           /\ "open(r)" \notin Range(calls) /\ "ast.parse" \notin Range(calls)
           /\ tree = <<>>
    /\ (fileKind = "file" /\ ~source.valid) => pc \in {"start", "isfile", "parse", "raised"}
    /\ pc = "raised" =>
           /\ ~Extracted
           /\ out = None
           /\ "open(w)" \notin Range(calls)
           /\ status # None /\ status[1] # 0

\* a run that a raising annotation ended after the extraction had begun
C6_Witness ==
    /\ pc = "raised"
    /\ exc = "AttributeError"
    /\ imports # <<>>
    /\ out = None

\* the claim's violator: some parameter has no annotation, or the return
\* annotation is absent
IsViolator(func) ==
    \/ \E i \in DOMAIN func.args : func.args[i].annotation = None
    \/ func.returns = None

FunctionLabel(func) == "- Function '" \o func.name \o "'"
MethodLabel(cls, method) ==
    "- Method '" \o method.name \o "' in class '" \o cls.name \o "'"

\* C7: check_type_annotations lists a function or method iff some parameter
\* has no annotation or its return annotation is absent, lists each violator
\* once, and returns the confirmation exactly when there is no violator.
C7_Violators ==
    pc = "returned_annotations" =>
        LET d == fnArg
            lines == Lines(fnResult[1])
            violators ==
                {<<0, f>> : f \in {f \in DOMAIN d.functions : IsViolator(d.functions[f])}}
                \cup UNION {{<<c, m>> : m \in {m \in DOMAIN d.classes[c].methods :
                                                 IsViolator(d.classes[c].methods[m])}} :
                            c \in DOMAIN d.classes}
            LabelOf(v) == IF v[1] = 0 THEN FunctionLabel(d.functions[v[2]])
                          ELSE MethodLabel(d.classes[v[1]], d.classes[v[1]].methods[v[2]])
        IN /\ (fnResult[1] = "All functions and methods have type annotations.")
                  <=> (violators = {})
           /\ violators # {} =>
                  /\ lines[1] = "Missing Type Annotations:"
                  /\ Len(lines) = 1 + Cardinality(violators)
                  /\ \A v \in violators :
                         Count(lines, LabelOf(v)) =
                             Cardinality({w \in violators : LabelOf(w) = LabelOf(v)})

\* two violating functions of the same name, each listed, beside methods
\* that are fully annotated
C7_Witness ==
    /\ pc = "returned_annotations"
    /\ Len(fnArg.functions) = 2
    /\ \A f \in DOMAIN fnArg.functions : IsViolator(fnArg.functions[f])
    /\ \E f \in DOMAIN fnArg.functions :
           fnArg.functions[f].args = <<>> /\ fnArg.functions[f].returns = None
    /\ \E f \in DOMAIN fnArg.functions :
           fnArg.functions[f].args = <<Typed, Untyped>> /\ fnArg.functions[f].returns # None
    /\ Count(Lines(fnResult[1]), "- Function 'f'") = 2

\* the claim's conventions
Letters == Upper \cup Lower
ClassConforms(name) ==
    /\ Len(name) >= 1
    /\ CharAt(name, 1) \in Upper
    /\ \A i \in 2..Len(name) : CharAt(name, i) \in Letters \cup Digit
FunctionConforms(name) ==
    /\ Len(name) >= 1
    /\ CharAt(name, 1) \in Lower \cup {"_"}
    /\ \A i \in 2..Len(name) : CharAt(name, i) \in Lower \cup Digit \cup {"_"}

\* C8: check_naming_conventions reports a class iff its name is not an
\* uppercase letter followed by letters and digits, and a function or
\* method iff its name is not a lowercase letter or underscore followed by
\* lowercase letters, digits and underscores; the confirmation line is
\* returned exactly when nothing is reported.
C8_Naming ==
    pc = "returned_naming" =>
        LET d == fnArg
            lines == Lines(fnResult[1])
            ClassLine(cls) == "- Class '" \o cls.name \o "' does not follow CamelCase"
            MethodLine(cls, method) ==
                "- Method '" \o method.name \o "' in class '" \o cls.name
                \o "' does not follow snake_case"
            FunctionLine(func) ==
                "- Function '" \o func.name \o "' does not follow snake_case"
            clean ==
                /\ \A c \in DOMAIN d.classes :
                       /\ ClassConforms(d.classes[c].name)
                       /\ \A m \in DOMAIN d.classes[c].methods :
                              FunctionConforms(d.classes[c].methods[m].name)
                /\ \A f \in DOMAIN d.functions : FunctionConforms(d.functions[f].name)
        IN /\ \A c \in DOMAIN d.classes :
                  /\ ClassLine(d.classes[c]) \in Range(lines)
                         <=> ~ClassConforms(d.classes[c].name)
                  /\ \A m \in DOMAIN d.classes[c].methods :
                         MethodLine(d.classes[c], d.classes[c].methods[m]) \in Range(lines)
                             <=> ~FunctionConforms(d.classes[c].methods[m].name)
           /\ \A f \in DOMAIN d.functions :
                  FunctionLine(d.functions[f]) \in Range(lines)
                      <=> ~FunctionConforms(d.functions[f].name)
           /\ (fnResult[1] = "All names adhere to the specified naming convention.")
                  <=> clean

\* the claim's examples: the class http_server and the function DoThing are
\* reported, beside a method that conforms
C8_Witness ==
    /\ pc = "returned_naming"
    /\ fnArg = NamedRecord("http_server", "run", "DoThing")
    /\ Lines(fnResult[1]) =
           <<"Naming Convention Issues:",
             "Classes:",
             "- Class 'http_server' does not follow CamelCase",
             "Functions/Methods:",
             "- Function 'DoThing' does not follow snake_case">>

\* C9: 'args' holds one entry per formal parameter of the declaration, of
\* whatever kind, in declared order, so that an unannotated parameter of
\* any kind makes the function count as not fully annotated.
C9_EveryParameter ==
    Extracted =>
        LET Agrees(info) ==
                LET node == tree[DeclarationOf(tree, "FunctionDef", info.name)]
                IN /\ [k \in DOMAIN info.args |-> info.args[k].name] =
                          [k \in DOMAIN FormalParameters(node) |->
                              FormalParameters(node)[k].arg]
                   /\ (\E k \in DOMAIN FormalParameters(node) :
                           FormalParameters(node)[k].annotation = NoAnnotation)
                          => ~has_type_annotations(info)
        IN /\ \A i \in DOMAIN data[1].functions : Agrees(data[1].functions[i])
           /\ \A c \in DOMAIN data[1].classes :
                  \A m \in DOMAIN data[1].classes[c].methods :
                      Agrees(data[1].classes[c].methods[m])

\* C10: a generic whose base and single argument are identifiers is
\* rendered Base[Arg], whether the argument is the slice itself or is
\* wrapped in an index node.
C10_Generic ==
    (/\ pc = "returned"
     /\ fnArg.kind = "Subscript"
     /\ fnArg.value.kind = "Name"
     /\ \/ fnArg.slice.kind = "Name"
        \/ fnArg.slice.kind = "Index" /\ fnArg.slice.value.kind = "Name") =>
        LET argument == IF fnArg.slice.kind = "Name" THEN fnArg.slice
                        ELSE fnArg.slice.value
        IN fnResult[1] = Return(Some(fnArg.value.id \o "[" \o argument.id \o "]"))

===========================================================================
